---- MODULE Spec2Model ----
(***************************************************************************)
(* Model of the client generation/history lifecycle of tumo-self           *)
(* (src/hooks/use-image-generation.ts) together with the server route      *)
(* handlers it talks to (generate-images, generations list, media item     *)
(* delete).  One browser tab of one authenticated user.                    *)
(*                                                                         *)
(* Time is counted in units of 20 seconds: every Date.now() of the code    *)
(* reads `now`, which advances between the user's submissions.             *)
(***************************************************************************)
EXTENDS Integers, Sequences, FiniteSets, TLC

(***************************************************************************)
(* Bounds of the model.                                                    *)
(***************************************************************************)
\* startGeneration calls that pass both validation gates
MaxCalls == 2
\* the same where the order of the history is looked at
MaxOrderCalls == 3
\* setup requests the server handles concurrently
MaxSetups == 2
\* times the page is opened
MaxMounts == 2
\* deleteImage calls
MaxDeletes == 2
\* deleteGeneration requests
MaxGenerationDeletes == 2
\* delete requests sent to the server's routes directly
MaxHandlers == 2

(***************************************************************************)
(* Program constants.                                                      *)
(***************************************************************************)
\* route.ts:84  Date.now() - 60000, in units of 20 seconds
RECENT_WINDOW == 3
\* use-image-generation.ts:63  5 * 60 * 1000, in units of 20 seconds
RESTORE_WINDOW == 15
\* part_004:21  the default page size of the list route
DEFAULT_LIMIT == 10
\* use-image-generation.ts:220  retries of deleteImage after a 404
MAX_RETRIES == 3

\* ProviderKey: the keys of providerConfig
ProviderKey == {"replicate", "openai"}

\* the fixed provider priority list of lib/provider-config
PROVIDER_ORDER == <<"replicate", "openai">>

\* prompts the user submits
Prompts == {"fox", "owl"}

\* HTTP statuses of a failed generate request: 500 (provider error) and the
\* 504 of the route's own timeout
ErrorStatus == {500, 504}

\* time between two submissions: half a minute, or a minute
Delays == {1, RECENT_WINDOW}

\* session?.user?.id: nobody, the user of the page, another user
NoUser == ""
PageUser == "u1"
OtherUser == "u2"
Callers == {NoUser, PageUser, OtherUser}

NoId == <<"null", 0>>
TempId(c) == <<"temp", c>>
DbId(n) == <<"db", n>>

NoContent == 0

VARIABLES
    now,                    \* the clock, in units of 20 seconds
    isGeneratingRef,        \* isGeneratingRef.current
    isLoading,              \* the isLoading state
    currentGenerationRef,   \* currentGenerationRef.current
    generationHistory,      \* the generationHistory state
    localStorage,           \* localStorage["currentGeneration"]
    callNo,                 \* number of startGeneration calls accepted so far
    lastResult,             \* what the last startGeneration call returned / will return
    requests,               \* the generate requests of the call in progress, by provider
    db,                     \* the generation table with its media items
    nextId,                 \* the next identifier the database issues
    load,                   \* the page's request for the saved generations
    deletes,                \* the deleteImage calls so far, those that ended as NoDelete
    generationDeletes,      \* the ids of the deleteGeneration requests so far, or NoId
    handlers,               \* the delete handlers the server has started, step by step
    timedOut,               \* provider calls still running after their request was answered 504
    users,                  \* the user table
    setups,                 \* the setup requests the server has started, step by step
    visit,                  \* a page request on its way through the middleware
    media,                  \* a request to one of the media-serving routes
    log                     \* per accepted call: what was asked and what the providers returned

vars == <<now, isGeneratingRef, isLoading, currentGenerationRef, generationHistory,
          localStorage, callNo, lastResult, requests, db, nextId, load, deletes,
          generationDeletes, handlers, timedOut, users, setups, visit, media, log>>

\* the state of the hook, of the calls, and of the server
hook == <<isGeneratingRef, isLoading, currentGenerationRef, generationHistory,
          localStorage>>
calls == <<callNo, lastResult, log>>
server == <<db, nextId>>
site == <<users, setups, visit, media>>

(***************************************************************************)
(* Helpers on sequences.                                                   *)
(***************************************************************************)
Range(s) == {s[i] : i \in 1..Len(s)}

\* sequences over S without repetition
Lists(S) == {s \in UNION {[1..n -> S] : n \in 0..Cardinality(S)} :
                \A i, j \in 1..Len(s) : i # j => s[i] # s[j]}

(***************************************************************************)
(* Data shapes (src/unnamed/part_001, use-image-generation.ts:6-14).       *)
(***************************************************************************)
\* ProviderTiming; -1 stands for an absent field
NoTiming == [startTime |-> -1, completionTime |-> -1, elapsed |-> -1]

\* initializeProviderRecord<ProviderTiming>()
initializeProviderRecord == [p \in ProviderKey |-> NoTiming]

\* the value currentGenerationRef is constructed with and reset to
EmptyGeneration ==
    [id |-> NoId, prompt |-> "", timestamp |-> 0, images |-> <<>>, errors |-> <<>>,
     timings |-> initializeProviderRecord, failedProviders |-> <<>>]

\* localStorage.getItem("currentGeneration") === null
NoItem == [id |-> NoId, prompt |-> "", timestamp |-> -1]

\* no page request has gone through the middleware yet
NoVisit == [pathname |-> <<>>, cookie |-> FALSE, isDev |-> FALSE, response |-> ""]

\* no media request has been made yet
NoMedia ==
    [route |-> "", caller |-> "", userId |-> "", exists |-> FALSE, storageType |-> "",
     configured |-> FALSE, staticUrl |-> FALSE, status |-> 0, served |-> ""]

\* a request slot nobody uses; `orphan` marks a request whose page was reloaded
IdleRequest == [pc |-> "idle", prompt |-> "", gid |-> NoId, orphan |-> FALSE]

\* the message generateImage's catch block records for a failed response
ErrorMessage(status) ==
    IF status = 504
    THEN "Image generation took too long. Please try a simpler prompt or try again later."
    ELSE "Failed to generate image. Please try again later."

NoProvidersError == "Please select at least one provider to generate images."
InProgressError == "A generation is already in progress. Please wait for it to complete."

(***************************************************************************)
(* saveGenerationToHistory (use-image-generation.ts:310-397).              *)
(***************************************************************************)
\* Map.has on the images map, kept as a sequence in insertion order
MapHas(images, p) == \E i \in 1..Len(images) : images[i].provider = p

MapGet(images, p) == images[CHOOSE i \in 1..Len(images) : images[i].provider = p]

\* Map.set: an existing key keeps its place, a new key goes last
MapSet(images, img) ==
    IF MapHas(images, img.provider)
    THEN [i \in 1..Len(images) |->
            IF images[i].provider = img.provider THEN img ELSE images[i]]
    ELSE Append(images, img)

\* Array.from(map.values()): the images in the order they arrived
ImageArrayByArrival(images) == images

\* PROVIDER_ORDER.filter(has).map(get)
ImageArray(images) ==
    LET kept == SelectSeq(PROVIDER_ORDER, LAMBDA p : MapHas(images, p))
    IN [i \in 1..Len(kept) |-> MapGet(images, kept[i])]

HistoryEntry(current) ==
    [id |-> current.id, prompt |-> current.prompt, timestamp |-> current.timestamp,
     images |-> ImageArray(current.images), errors |-> current.errors,
     timings |-> current.timings, failedProviders |-> current.failedProviders]

\* the updater with >= for >: an equal image count replaces too
HistoryUpdaterOnEqual(prev, entry) ==
    IF \E i \in 1..Len(prev) : prev[i].id = entry.id
    THEN [i \in 1..Len(prev) |->
            IF prev[i].id = entry.id /\ Len(entry.images) >= Len(prev[i].images)
            THEN entry ELSE prev[i]]
    ELSE <<entry>> \o prev

\* the updater adding the new entry at the end of the list
HistoryUpdaterAtEnd(prev, entry) ==
    IF \E i \in 1..Len(prev) : prev[i].id = entry.id
    THEN [i \in 1..Len(prev) |->
            IF prev[i].id = entry.id /\ Len(entry.images) > Len(prev[i].images)
            THEN entry ELSE prev[i]]
    ELSE prev \o <<entry>>

\* the updater handed to setGenerationHistory
HistoryUpdater(prev, entry) ==
    LET existingIndex == IF \E i \in 1..Len(prev) : prev[i].id = entry.id
                         THEN CHOOSE i \in 1..Len(prev) :
                                /\ prev[i].id = entry.id
                                /\ \A j \in 1..(i - 1) : prev[j].id # entry.id
                         ELSE 0
    IN IF existingIndex # 0
       THEN IF Len(entry.images) > Len(prev[existingIndex].images)
            THEN [prev EXCEPT ![existingIndex] = entry]
            ELSE prev
       ELSE <<entry>> \o prev

\* the guard of line 320
HasGeneration(current) == current.id # NoId /\ Len(current.images) > 0

\* the guard of line 328
HasSuccessfulImage(imageArray) ==
    \E i \in 1..Len(imageArray) : imageArray[i].content # NoContent

\* saveGenerationToHistory without the guards of lines 320 and 328
SavedHistoryUnguarded(current, history) == HistoryUpdater(history, HistoryEntry(current))

\* the history after saveGenerationToHistory()
SavedHistory(current, history) ==
    IF HasGeneration(current) /\ HasSuccessfulImage(ImageArray(current.images))
    THEN HistoryUpdater(history, HistoryEntry(current))
    ELSE history

\* currentGenerationRef.current after saveGenerationToHistory()
SavedCurrent(current) == IF HasGeneration(current) THEN EmptyGeneration ELSE current

\* localStorage after saveGenerationToHistory()
SavedStorage(current, stored) == IF HasGeneration(current) THEN NoItem ELSE stored

(***************************************************************************)
(* POST /api/generate-images (src/app/api/generate-images/route.ts).       *)
(* The handler suspends at findFirst, at create and at the provider call.  *)
(***************************************************************************)
\* the where clause of findFirst
RecentSamePrompt(prompt) ==
    {i \in 1..Len(db) : db[i].prompt = prompt /\ db[i].timestamp > now - RECENT_WINDOW}

\* orderBy timestamp desc, take 1: the rows findFirst may return
FindFirst(prompt) ==
    {i \in RecentSamePrompt(prompt) :
        \A j \in RecentSamePrompt(prompt) : db[j].timestamp <= db[i].timestamp}

SetRequest(p, r) == [requests EXCEPT ![p] = r]

\* lines 75-100: an existing generation is reused, or none is found, or the
\* query throws and the handler goes on without a generation id
SrvFind(p) ==
    /\ requests[p].pc = "find"
    /\ \/ \E i \in FindFirst(requests[p].prompt) :
            requests' = SetRequest(p, [requests[p] EXCEPT !.pc = "gen", !.gid = db[i].id])
       \/ /\ FindFirst(requests[p].prompt) = {}
          /\ requests' = SetRequest(p, [requests[p] EXCEPT !.pc = "create"])
       \/ requests' = SetRequest(p, [requests[p] EXCEPT !.pc = "gen", !.gid = NoId])
    /\ UNCHANGED <<now, hook, calls, server, load, deletes, generationDeletes, handlers, timedOut, site>>

\* lines 102-116
SrvCreate(p) ==
    /\ requests[p].pc = "create"
    /\ db' = Append(db, [id |-> DbId(nextId), userId |-> PageUser,
                         prompt |-> requests[p].prompt,
                         timestamp |-> now, mediaItems |-> <<>>, call |-> callNo])
    /\ nextId' = nextId + 1
    /\ requests' = SetRequest(p, [requests[p] EXCEPT !.pc = "gen", !.gid = DbId(nextId)])
    /\ UNCHANGED <<now, hook, calls, load, deletes, generationDeletes, handlers, timedOut, site>>

\* prisma.mediaItem.create with connect: fails (and is caught) when the row is gone
WithMediaItem(rows, gid, p) ==
    [i \in 1..Len(rows) |->
        IF rows[i].id = gid
        THEN [rows[i] EXCEPT !.mediaItems = Append(@, p)]
        ELSE rows[i]]

(***************************************************************************)
(* startGeneration (use-image-generation.ts:399-730).                      *)
(***************************************************************************)
\* the first gate left out
NoProvidersUnchecked(providers) == FALSE

\* the validation gate of lines 414-421
NoProviders(providers) == Len(providers) = 0

\* the second gate left out
AlreadyGeneratingUnchecked == FALSE

\* the validation gate of lines 423-430
AlreadyGenerating == isGeneratingRef

\* lines 492-500: a start time for every provider of the call
InitialTimings(providers, timestamp) ==
    [p \in ProviderKey |->
        IF p \in Range(providers) THEN [NoTiming EXCEPT !.startTime = timestamp]
        ELSE NoTiming]

\* lines 450-458 and 500
NewGeneration(c, prompt, providers, timestamp) ==
    [id |-> TempId(c), prompt |-> prompt, timestamp |-> timestamp, images |-> <<>>,
     errors |-> <<>>, timings |-> InitialTimings(providers, timestamp),
     failedProviders |-> <<>>]

\* lines 670-674: one fetch per provider
IssueRequests(prompt, providers) ==
    [p \in ProviderKey |->
        IF p \in Range(providers)
        THEN [pc |-> "find", prompt |-> prompt, gid |-> NoId, orphan |-> FALSE]
        ELSE IdleRequest]

Rejected(error) ==
    /\ lastResult' = [call |-> 0, success |-> FALSE, error |-> error]
    /\ UNCHANGED <<now, hook, callNo, log, requests, server, load, deletes, generationDeletes, handlers, timedOut, site>>

\* the synchronous part of the call, up to the awaited fetches
Accepted(prompt, providers, elapsed) ==
    /\ now' = IF callNo = 0 THEN now ELSE now + elapsed
    /\ callNo' = callNo + 1
    /\ isGeneratingRef' = TRUE
    /\ isLoading' = TRUE
    /\ generationHistory' = SavedHistory(currentGenerationRef, generationHistory)
    /\ currentGenerationRef' = NewGeneration(callNo + 1, prompt, providers, now')
    /\ localStorage' = [id |-> TempId(callNo + 1), prompt |-> prompt, timestamp |-> now']
    /\ requests' = IssueRequests(prompt, providers)
    /\ log' = Append(log, [prompt |-> prompt, providers |-> Range(providers),
                            delivered |-> {}, ids |-> <<TempId(callNo + 1)>>,
                            added |-> Len(generationHistory') - Len(generationHistory)])
    /\ UNCHANGED <<lastResult, server, load, deletes, generationDeletes, handlers, timedOut, site>>

\* `elapsed` is the time since the previous submission
StartGeneration(prompt, providers, elapsed) ==
    IF NoProviders(providers) THEN Rejected(NoProvidersError)
    ELSE IF AlreadyGenerating THEN Rejected(InProgressError)
    ELSE Accepted(prompt, providers, elapsed)

(***************************************************************************)
(* The end of a generate request: the handler's response and, in the same *)
(* step, generateImage's continuation on the page (lines 520-667) and,     *)
(* with the last provider of the call, what follows Promise.all (lines     *)
(* 676-729).  Responses arrive in the order of these steps.                *)
(***************************************************************************)
\* a success path that takes the identifier of every response
OnSuccessAnyId(current, c, p, gid) ==
    [current EXCEPT
        !.timings[p] = [startTime |-> current.timestamp, completionTime |-> now,
                        elapsed |-> now - current.timestamp],
        !.id = IF gid # NoId THEN gid ELSE @,
        !.images = MapSet(@, [provider |-> p, content |-> c, mediaPath |-> "stored"])]

\* lines 541-606: a 2xx response
OnSuccess(current, c, p, gid) ==
    [current EXCEPT
        !.timings[p] = [startTime |-> current.timestamp, completionTime |-> now,
                        elapsed |-> now - current.timestamp],
        !.id = IF gid # NoId /\ current.id = TempId(c) THEN gid ELSE @,
        !.images = MapSet(@, [provider |-> p, content |-> c, mediaPath |-> "stored"])]

\* lines 572-583: the stored item follows the identifier
StorageOnSuccess(stored, current, c, gid) ==
    IF gid # NoId /\ current.id = TempId(c) /\ stored # NoItem
    THEN [stored EXCEPT !.id = gid]
    ELSE stored

\* a catch block that records the error but not the failed provider
OnFailureErrorOnly(current, p, status) ==
    [current EXCEPT
        !.errors = Append(@, [provider |-> p, message |-> ErrorMessage(status)])]

\* lines 617-667: the catch block
OnFailure(current, p, status) ==
    [current EXCEPT
        !.failedProviders = Append(@, p),
        !.errors = Append(@, [provider |-> p, message |-> ErrorMessage(status)])]

\* Promise.all has every provider settled
AllSettled(p) == \A q \in ProviderKey \ {p} : requests[q].pc = "idle"

\* a call that fails when no provider returned an image
CallResultByImages(c, current) ==
    [call |-> c, success |-> Len(current.images) > 0,
     error |-> IF Len(current.images) > 0 THEN "" ELSE "Failed to generate images"]

\* the value startGeneration resolves to after Promise.all (line 678)
CallResult(c, current) == [call |-> c, success |-> TRUE, error |-> ""]

\* the client's half of a response: generateImage's continuation
Settle(c, p, status) ==
    LET r == requests[p]
        current == IF status = 200
                   THEN OnSuccess(currentGenerationRef, c, p, r.gid)
                   ELSE OnFailure(currentGenerationRef, p, status)
        stored == IF status = 200
                  THEN StorageOnSuccess(localStorage, currentGenerationRef, c, r.gid)
                  ELSE localStorage
        delivered == IF status = 200 THEN log[c].delivered \cup {p} ELSE log[c].delivered
        ids == IF current.id # currentGenerationRef.id
               THEN Append(log[c].ids, current.id) ELSE log[c].ids
    IN IF AllSettled(p)
       THEN /\ lastResult' = CallResult(c, current)
            /\ isGeneratingRef' = FALSE
            /\ isLoading' = FALSE
            /\ generationHistory' = SavedHistory(current, generationHistory)
            /\ currentGenerationRef' = SavedCurrent(current)
            /\ localStorage' = NoItem
            /\ log' = [log EXCEPT ![c].delivered = delivered, ![c].ids = ids,
                                  ![c].added = @ + Len(generationHistory')
                                                 - Len(generationHistory)]
       ELSE /\ currentGenerationRef' = current
            /\ localStorage' = stored
            /\ log' = [log EXCEPT ![c].delivered = delivered, ![c].ids = ids]
            /\ UNCHANGED <<lastResult, isGeneratingRef, isLoading, generationHistory>>

\* the response reaches the page, unless the page that sent the request is gone
Respond(c, p, status) ==
    /\ requests' = SetRequest(p, IdleRequest)
    /\ IF requests[p].orphan
       THEN UNCHANGED <<hook, lastResult, log>>
       ELSE Settle(c, p, status)

\* route.ts:123-234: the provider returned an image, which is stored and recorded
SrvGenerateOk(p) ==
    /\ requests[p].pc = "gen"
    /\ db' = WithMediaItem(db, requests[p].gid, p)
    /\ Respond(callNo, p, 200)
    /\ UNCHANGED <<now, callNo, nextId, load, deletes, generationDeletes, handlers, timedOut, site>>

\* route.ts:235-274: the provider call threw or timed out
SrvGenerateError(p) ==
    /\ requests[p].pc = "gen"
    /\ \E status \in ErrorStatus : Respond(callNo, p, status)
    /\ UNCHANGED <<now, callNo, server, load, deletes, generationDeletes, handlers, timedOut, site>>

(***************************************************************************)
(* The 55-second timeout of the generate route (route.ts:40-51, 232).       *)
(* withTimeout races the provider call against a timer: when the timer      *)
(* wins the handler answers 504, and the provider call, with the saving of  *)
(* the image chained to it (lines 143-231), goes on running.                *)
(***************************************************************************)
\* lines 232 and 249-252: the timer fired first
SrvGenerateTimeout(p) ==
    /\ requests[p].pc = "gen"
    /\ timedOut' = timedOut \cup {[gid |-> requests[p].gid, provider |-> p]}
    /\ Respond(callNo, p, 504)
    /\ UNCHANGED <<now, callNo, server, load, deletes, generationDeletes, handlers, site>>

\* lines 143-231 after the response: the provider returned, the image is stored
\* and its media item recorded
SrvLateSave(t) ==
    /\ t \in timedOut
    /\ timedOut' = timedOut \ {t}
    /\ db' = WithMediaItem(db, t.gid, t.provider)
    /\ UNCHANGED <<now, hook, calls, requests, nextId, load, deletes, generationDeletes, handlers, site>>

\* the provider call of a timed-out request fails in the end
SrvLateError(t) ==
    /\ t \in timedOut
    /\ timedOut' = timedOut \ {t}
    /\ UNCHANGED <<now, hook, calls, requests, server, load, deletes, generationDeletes, handlers, site>>

(***************************************************************************)
(* GET /api/generations (src/unnamed/part_004) and loadSavedGenerations    *)
(* (use-image-generation.ts:108-177).                                      *)
(***************************************************************************)
\* findMany orderBy timestamp desc: the orders the database may return the rows in
FindMany ==
    {perm \in [1..Len(db) -> 1..Len(db)] :
        /\ \A i, j \in 1..Len(db) : i # j => perm[i] # perm[j]
        /\ \A i, j \in 1..Len(db) : i < j => db[perm[i]].timestamp >= db[perm[j]].timestamp}

\* take: limit
Take(s, limit) == SubSeq(s, 1, IF Len(s) < limit THEN Len(s) ELSE limit)

\* lines 129-144: a media item as a MediaResult without content
ConvertMedia(mediaItems) ==
    [i \in 1..Len(mediaItems) |->
        [provider |-> mediaItems[i], content |-> NoContent, mediaPath |-> "stored"]]

\* lines 126-160
ConvertGeneration(gen) ==
    [id |-> gen.id, prompt |-> gen.prompt, timestamp |-> gen.timestamp,
     images |-> ConvertMedia(gen.mediaItems), errors |-> <<>>,
     timings |-> initializeProviderRecord, failedProviders |-> <<>>]

\* Array.prototype.sort by b.timestamp - a.timestamp, which is stable
RECURSIVE SortNewestFirst(_)
SortNewestFirst(s) ==
    IF s = <<>> THEN <<>>
    ELSE LET rest == SortNewestFirst(Tail(s))
             k == Cardinality({i \in 1..Len(rest) : rest[i].timestamp > Head(s).timestamp})
         IN SubSeq(rest, 1, k) \o <<Head(s)>> \o SubSeq(rest, k + 1, Len(rest))

\* the handler answers with the user's generations
LoadServe ==
    /\ load.pc = "sent"
    /\ \E perm \in FindMany :
         load' = [load EXCEPT
                    !.pc = "resp",
                    !.generations = Take([i \in 1..Len(db) |-> db[perm[i]]], DEFAULT_LIMIT)]
    /\ UNCHANGED <<now, hook, calls, requests, server, deletes, generationDeletes, handlers, timedOut, site>>

\* the handler answers 401 or 500, or the fetch throws: lines 115-118, 168-172
LoadFail ==
    /\ load.pc = "sent"
    /\ load' = [load EXCEPT !.pc = "done", !.generations = <<>>]
    /\ UNCHANGED <<now, hook, calls, requests, server, deletes, generationDeletes, handlers, timedOut, site>>

\* the history loadSavedGenerations sets (lines 120-167)
LoadedHistory(generations) ==
    SortNewestFirst([i \in 1..Len(generations) |-> ConvertGeneration(generations[i])])

\* loadSavedGenerations after its fetch resolved
LoadApply ==
    /\ load.pc = "resp"
    /\ generationHistory' = LoadedHistory(load.generations)
    /\ load' = [load EXCEPT !.pc = "done", !.generations = <<>>]
    /\ UNCHANGED <<now, isGeneratingRef, isLoading, currentGenerationRef, localStorage,
                   calls, requests, server, deletes, generationDeletes, handlers, timedOut, site>>

isLoadingSavedGenerations == load.pc # "done"

(***************************************************************************)
(* deleteImage (use-image-generation.ts:219-307) and DELETE                *)
(* /api/generations/[id]/media/[provider].  The handler's work, its        *)
(* response and deleteImage's continuation are one step.                   *)
(***************************************************************************)
NoDelete == [id |-> NoId, provider |-> "", retryCount |-> 0]

\* route.ts:51-81: 404 without the generation or without a media item of the provider
MediaStatus(id, provider) ==
    IF \E r \in 1..Len(db) : db[r].id = id /\ provider \in Range(db[r].mediaItems)
    THEN 200 ELSE 404

\* the sequence without its element at position k
RemoveAt(s, k) == SubSeq(s, 1, k - 1) \o SubSeq(s, k + 1, Len(s))

\* route.ts:78, 102-106: the first media item of the provider is deleted
WithoutFirst(mediaItems, provider) ==
    RemoveAt(mediaItems, CHOOSE k \in 1..Len(mediaItems) :
                            /\ mediaItems[k] = provider
                            /\ \A j \in 1..(k - 1) : mediaItems[j] # provider)

\* route.ts:102-122: the generation goes with its last media item
WithoutMediaItem(rows, id, provider) ==
    LET r == CHOOSE k \in 1..Len(rows) : rows[k].id = id
        remaining == WithoutFirst(rows[r].mediaItems, provider)
    IN IF remaining = <<>> THEN RemoveAt(rows, r)
       ELSE [rows EXCEPT ![r].mediaItems = remaining]

\* an update without the final filter: the emptied entry stays
WithoutImageKeepingEntry(history, id, provider) ==
    [k \in 1..Len(history) |->
        IF history[k].id = id
        THEN [history[k] EXCEPT !.images = SelectSeq(@, LAMBDA img : img.provider # provider)]
        ELSE history[k]]

\* lines 276-298: the updater handed to setGenerationHistory
WithoutImage(history, id, provider) ==
    LET updated == [k \in 1..Len(history) |->
                      IF history[k].id = id
                      THEN [history[k] EXCEPT
                              !.images = SelectSeq(@, LAMBDA img : img.provider # provider)]
                      ELSE history[k]]
    IN SelectSeq(updated, LAMBDA e : ~(e.id = id /\ e.images = <<>>))

\* image-playground.tsx:194-225: the page calls deleteImage for an image it shows
HandleDeleteImage(id, provider) ==
    /\ Len(deletes) < MaxDeletes
    /\ \E k \in 1..Len(generationHistory) :
          /\ generationHistory[k].id = id
          /\ MapHas(generationHistory[k].images, provider)
    /\ deletes' = Append(deletes, [id |-> id, provider |-> provider, retryCount |-> 0])
    /\ UNCHANGED <<now, hook, calls, requests, server, load, generationDeletes, handlers, timedOut, site>>

\* the handler deletes the media item and answers 200; lines 276-298 follow
DeleteImageOk(i) ==
    /\ deletes[i] # NoDelete
    /\ MediaStatus(deletes[i].id, deletes[i].provider) = 200
    /\ db' = WithoutMediaItem(db, deletes[i].id, deletes[i].provider)
    /\ generationHistory' = WithoutImage(generationHistory, deletes[i].id, deletes[i].provider)
    /\ deletes' = [deletes EXCEPT ![i] = NoDelete]
    /\ UNCHANGED <<now, isGeneratingRef, isLoading, currentGenerationRef, localStorage,
                   calls, requests, nextId, load, generationDeletes, handlers, timedOut, site>>

\* a 404 that is retried whatever the number of retries so far
DeleteImageNotFoundAgain(i) ==
    /\ deletes[i] # NoDelete
    /\ MediaStatus(deletes[i].id, deletes[i].provider) = 404
    /\ deletes' = [deletes EXCEPT ![i].retryCount = @ + 1]
    /\ UNCHANGED <<now, hook, calls, requests, server, load, generationDeletes, handlers, timedOut, site>>

\* the handler answers 404: lines 257-266, another attempt while retries are left
DeleteImageNotFound(i) ==
    /\ deletes[i] # NoDelete
    /\ MediaStatus(deletes[i].id, deletes[i].provider) = 404
    /\ deletes' = [deletes EXCEPT ![i] =
                      IF @.retryCount < MAX_RETRIES
                      THEN [@ EXCEPT !.retryCount = @ + 1]
                      ELSE NoDelete]
    /\ UNCHANGED <<now, hook, calls, requests, server, load, generationDeletes, handlers, timedOut, site>>

\* the handler answers 401 or 500, or the fetch throws: lines 267-277, 301-306
DeleteImageError(i) ==
    /\ deletes[i] # NoDelete
    /\ deletes' = [deletes EXCEPT ![i] = NoDelete]
    /\ UNCHANGED <<now, hook, calls, requests, server, load, generationDeletes, handlers, timedOut, site>>

(***************************************************************************)
(* deleteGeneration (use-image-generation.ts:192-216) and DELETE           *)
(* /api/generations/[id] (src/unnamed/part_003).  The handler's work, its  *)
(* response and deleteGeneration's continuation are one step.              *)
(***************************************************************************)
\* the identifiers of the entries of the history
HistoryIds == {generationHistory[i].id : i \in 1..Len(generationHistory)}

\* the identifiers the database has issued
IssuedIds == {DbId(n) : n \in 1..(nextId - 1)}

\* line 194: generationHistory.find((entry) => entry.id === generationId)
InHistory(id) == \E k \in 1..Len(generationHistory) : generationHistory[k].id = id

\* part_003:45-58: 404 without the generation
GenerationStatus(id) == IF \E r \in 1..Len(db) : db[r].id = id THEN 200 ELSE 404

\* part_003:84-88: the generation is deleted, its media items with it
WithoutRow(rows, id) == SelectSeq(rows, LAMBDA row : row.id # id)

\* line 212: prev.filter((entry) => entry.id !== generationId)
WithoutGeneration(history, id) == SelectSeq(history, LAMBDA e : e.id # id)

\* lines 192-203: nothing is sent for an id the history does not have
DeleteGeneration(id) ==
    /\ Len(generationDeletes) < MaxGenerationDeletes
    /\ generationDeletes' = IF InHistory(id) THEN Append(generationDeletes, id)
                            ELSE generationDeletes
    /\ UNCHANGED <<now, hook, calls, requests, server, load, deletes, handlers, timedOut, site>>

\* the handler deletes the generation and answers 200; line 212 follows
DeleteGenerationOk(i) ==
    /\ generationDeletes[i] # NoId
    /\ GenerationStatus(generationDeletes[i]) = 200
    /\ db' = WithoutRow(db, generationDeletes[i])
    /\ generationHistory' = WithoutGeneration(generationHistory, generationDeletes[i])
    /\ generationDeletes' = [generationDeletes EXCEPT ![i] = NoId]
    /\ UNCHANGED <<now, isGeneratingRef, isLoading, currentGenerationRef, localStorage,
                   calls, requests, nextId, load, deletes, handlers, timedOut, site>>

\* a failed request that removes the entry all the same
DeleteGenerationErrorRemoving(i) ==
    /\ generationDeletes[i] # NoId
    /\ generationHistory' = WithoutGeneration(generationHistory, generationDeletes[i])
    /\ generationDeletes' = [generationDeletes EXCEPT ![i] = NoId]
    /\ UNCHANGED <<now, isGeneratingRef, isLoading, currentGenerationRef, localStorage,
                   calls, requests, server, load, deletes, handlers, timedOut, site>>

\* the handler answers 404: lines 206-209
DeleteGenerationNotFound(i) ==
    /\ generationDeletes[i] # NoId
    /\ GenerationStatus(generationDeletes[i]) = 404
    /\ generationDeletes' = [generationDeletes EXCEPT ![i] = NoId]
    /\ UNCHANGED <<now, hook, calls, requests, server, load, deletes, handlers, timedOut, site>>

\* the handler answers 401 or 500, or the fetch throws: lines 206-209, 213-215
DeleteGenerationError(i) ==
    /\ generationDeletes[i] # NoId
    /\ generationDeletes' = [generationDeletes EXCEPT ![i] = NoId]
    /\ UNCHANGED <<now, hook, calls, requests, server, load, deletes, handlers, timedOut, site>>

(***************************************************************************)
(* The two delete routes statement by statement, for requests that reach   *)
(* them at any time: DELETE /api/generations/[id] (src/unnamed/part_003)   *)
(* and DELETE /api/generations/[id]/media/[provider].  A handler is at     *)
(* "find" (findUnique), "delete" (mediaItem.delete), "count"               *)
(* (mediaItem.count), "drop" (generation.delete) or "done" with the status *)
(* it answered.  `gone` says that the media item it found was deleted      *)
(* since.                                                                  *)
(***************************************************************************)
HandlerOf(caller, kind, id, provider) ==
    [caller |-> caller, kind |-> kind, id |-> id, provider |-> provider, pc |-> "find",
     gone |-> FALSE, status |-> 0]

Handler(kind, id, provider) == HandlerOf(PageUser, kind, id, provider)

SetHandler(i, h) == [handlers EXCEPT ![i] = h]

\* the handler has answered; what is kept of it is its route and its status
Answer(i, status) ==
    SetHandler(i, [caller |-> NoUser, kind |-> handlers[i].kind, id |-> NoId,
                   provider |-> "", pc |-> "done", gone |-> FALSE, status |-> status])

RowExists(id) == \E r \in 1..Len(db) : db[r].id = id

\* a request of the owner reaches one of the routes
SrvDeleteRequest(kind, id, provider) ==
    /\ Len(handlers) < MaxHandlers
    /\ handlers' = Append(handlers, Handler(kind, id, provider))
    /\ UNCHANGED <<now, hook, calls, requests, server, load, deletes, generationDeletes, timedOut, site>>

\* a request of anybody reaches one of the routes
SrvDeleteRequestBy(caller, kind, id, provider) ==
    /\ Len(handlers) < MaxHandlers
    /\ handlers' = Append(handlers, HandlerOf(caller, kind, id, provider))
    /\ UNCHANGED <<now, hook, calls, requests, server, load, deletes, generationDeletes, timedOut, site>>

\* generation.userId of the record
OwnerOf(id) == db[CHOOSE r \in 1..Len(db) : db[r].id = id].userId

\* checks that let every authenticated caller through
DeleteAccessUnowned(caller, id) ==
    IF caller = NoUser THEN 401
    ELSE IF ~RowExists(id) THEN 404
    ELSE 200

\* part_003:36-61, media route 41-73: session, findUnique, owner
DeleteAccess(caller, id) ==
    IF caller = NoUser THEN 401
    ELSE IF ~RowExists(id) THEN 404
    ELSE IF OwnerOf(id) # caller THEN 403
    ELSE 200

\* findUnique and the checks around it: part_003:36-61, media route 41-83
SrvDeleteFind(i) ==
    /\ handlers[i].pc = "find"
    /\ handlers' =
          IF DeleteAccess(handlers[i].caller, handlers[i].id) # 200
          THEN Answer(i, DeleteAccess(handlers[i].caller, handlers[i].id))
          ELSE IF handlers[i].kind = "generation"
          THEN SetHandler(i, [handlers[i] EXCEPT !.pc = "drop"])
          ELSE IF MediaStatus(handlers[i].id, handlers[i].provider) = 200
               THEN SetHandler(i, [handlers[i] EXCEPT !.pc = "delete"])
               ELSE Answer(i, 404)
    /\ UNCHANGED <<now, hook, calls, requests, server, load, deletes, generationDeletes, timedOut, site>>

\* the handlers whose media item is the first one of the provider in the generation
SameItem(i) ==
    {j \in 1..Len(handlers) :
        /\ handlers[j].kind = "media" /\ handlers[j].pc = "delete"
        /\ handlers[j].id = handlers[i].id /\ handlers[j].provider = handlers[i].provider}

\* media route 102-106: mediaItem.delete, which throws when the item is gone (500)
SrvDeleteItem(i) ==
    /\ handlers[i].pc = "delete"
    /\ IF handlers[i].gone \/ ~RowExists(handlers[i].id)
       THEN /\ handlers' = Answer(i, 500)
            /\ db' = db
       ELSE /\ db' = [r \in 1..Len(db) |->
                        IF db[r].id = handlers[i].id
                        THEN [db[r] EXCEPT
                                !.mediaItems = WithoutFirst(@, handlers[i].provider)]
                        ELSE db[r]]
            /\ handlers' = [j \in 1..Len(handlers) |->
                              IF j = i THEN [handlers[j] EXCEPT !.pc = "count"]
                              ELSE IF j \in SameItem(i)
                                   THEN [handlers[j] EXCEPT !.gone = TRUE]
                                   ELSE handlers[j]]
    /\ UNCHANGED <<now, hook, calls, requests, nextId, load, deletes, generationDeletes, timedOut, site>>

\* media route 109-113: mediaItem.count of the generation
SrvDeleteCount(i) ==
    /\ handlers[i].pc = "count"
    /\ handlers' =
          IF \E r \in 1..Len(db) : db[r].id = handlers[i].id /\ db[r].mediaItems # <<>>
          THEN Answer(i, 200)
          ELSE SetHandler(i, [handlers[i] EXCEPT !.pc = "drop"])
    /\ UNCHANGED <<now, hook, calls, requests, server, load, deletes, generationDeletes, timedOut, site>>

\* generation.delete, which throws when the generation is gone (500):
\* part_003:82-93, media route 116-124
SrvDeleteDrop(i) ==
    /\ handlers[i].pc = "drop"
    /\ IF RowExists(handlers[i].id)
       THEN /\ db' = WithoutRow(db, handlers[i].id)
            /\ handlers' = Answer(i, 200)
       ELSE /\ db' = db
            /\ handlers' = Answer(i, 500)
    /\ UNCHANGED <<now, hook, calls, requests, nextId, load, deletes, generationDeletes, timedOut, site>>

(***************************************************************************)
(* POST /api/setup (src/unnamed/part_002).  A handler is at "count"         *)
(* (prisma.user.count), at "create" (prisma.user.create, after the body     *)
(* was parsed and the password hashed) or "done" with its status.           *)
(***************************************************************************)
Emails == {"", "a@t", "b@t"}
Passwords == {"", "pw"}

SetSetup(i, h) == [setups EXCEPT ![i] = h]

\* the handler has answered; what is kept of it is its status
SetupAnswer(i, status) ==
    SetSetup(i, [email |-> "", password |-> "", pc |-> "done", status |-> status])

\* a setup request reaches the route
SetupRequest(email, password) ==
    /\ Len(setups) < MaxSetups
    /\ setups' = Append(setups, [email |-> email, password |-> password,
                                  pc |-> "count", status |-> 0])
    /\ UNCHANGED <<now, hook, calls, requests, server, load, deletes, generationDeletes, handlers, timedOut, users, visit, media>>

\* line 11: userCount > 0
SetupCompleted == Len(users) > 0

\* lines 8-25: the count, the body, the validation
SetupCount(i) ==
    /\ setups[i].pc = "count"
    /\ setups' =
          IF SetupCompleted THEN SetupAnswer(i, 400)
          ELSE IF setups[i].email = "" \/ setups[i].password = "" THEN SetupAnswer(i, 400)
          ELSE SetSetup(i, [setups[i] EXCEPT !.pc = "create"])
    /\ UNCHANGED <<now, hook, calls, requests, server, load, deletes, generationDeletes, handlers, timedOut, users, visit, media>>

\* lines 31-40: the user is created with role ADMIN; the email of a user is
\* unique (register/route.ts:15 looks users up by it), so that the create
\* throws for an email that is taken (lines 41-44)
SetupCreate(i) ==
    /\ setups[i].pc = "create"
    /\ IF \E u \in 1..Len(users) : users[u].email = setups[i].email
       THEN /\ users' = users
            /\ setups' = SetupAnswer(i, 500)
       ELSE /\ users' = Append(users, [email |-> setups[i].email, role |-> "ADMIN"])
            /\ setups' = SetupAnswer(i, 201)
    /\ UNCHANGED <<now, hook, calls, requests, server, load, deletes, generationDeletes, handlers, timedOut, visit, media>>

\* lines 41-44: a query or the parsing of the body throws
SetupError(i) ==
    /\ setups[i].pc # "done"
    /\ setups' = SetupAnswer(i, 500)
    /\ UNCHANGED <<now, hook, calls, requests, server, load, deletes, generationDeletes, handlers, timedOut, users, visit, media>>

(***************************************************************************)
(* The middleware (src/middleware.ts).  A pathname is the sequence of its   *)
(* characters.                                                              *)
(***************************************************************************)
RootPath == <<"/">>
SetupPath == <<"/", "s", "e", "t", "u", "p">>
LoginPath == <<"/", "l", "o", "g", "i", "n">>
ProfilePath == <<"/", "p", "r", "o", "f", "i", "l", "e">>
AdminPath == <<"/", "a", "d", "m", "i", "n">>
DashboardPath == <<"/", "d", "a", "s", "h", "b", "o", "a", "r", "d">>
ApiAuthPath == <<"/", "a", "p", "i", "/", "a", "u", "t", "h">>
ApiMediaPath == <<"/", "a", "p", "i", "/", "m", "e", "d", "i", "a">>
LogoPath == <<"/", "l", "o", "g", "o">>
NextDir == <<"_", "n", "e", "x", "t">>

\* the pathnames of the requests looked at
Pathnames ==
    {RootPath, SetupPath, SetupPath \o <<"/", "a">>, LoginPath, ProfilePath,
     ProfilePath \o <<"/">> \o NextDir, ProfilePath \o <<"/", "a", ".", "p", "n", "g">>,
     AdminPath, ApiMediaPath \o <<"/", "a">>}

\* String.prototype.startsWith
StartsWith(str, prefix) ==
    Len(str) >= Len(prefix) /\ SubSeq(str, 1, Len(prefix)) = prefix

\* String.prototype.endsWith
EndsWith(str, suffix) ==
    Len(str) >= Len(suffix) /\ SubSeq(str, Len(str) - Len(suffix) + 1, Len(str)) = suffix

\* String.prototype.includes
Includes(str, part) ==
    \E k \in 1..(Len(str) - Len(part) + 1) : SubSeq(str, k, k + Len(part) - 1) = part

\* line 7
publicPaths == {LoginPath, ApiAuthPath, SetupPath, LogoPath}

\* line 12: /\.(jpg|jpeg|png|gif|svg|ico)$/
ImageExtensions ==
    {<<".", "j", "p", "g">>, <<".", "j", "p", "e", "g">>, <<".", "p", "n", "g">>,
     <<".", "g", "i", "f">>, <<".", "s", "v", "g">>, <<".", "i", "c", "o">>}

\* lines 10-13
isPublicPath(pathname) ==
    \/ \E path \in publicPaths : StartsWith(pathname, path)
    \/ \E ext \in ImageExtensions : EndsWith(pathname, ext)
    \/ Includes(pathname, NextDir)

\* lines 5-62; `exists` is what the fetch of /api/auth/user-exists gave:
\* "yes", "no" or "error"
middleware(pathname, cookie, isDev, exists) ==
    IF isDev /\ StartsWith(pathname, ApiMediaPath) THEN "next"
    ELSE IF isPublicPath(pathname) THEN "next"
    ELSE IF ~cookie
    THEN IF exists = "no" THEN "redirect:/setup" ELSE "redirect:/login"
    ELSE IF pathname = SetupPath THEN "redirect:/"
    ELSE "next"

\* lines 65-72: config.matcher, the paths the middleware runs on
Matched(pathname) ==
    \/ pathname = RootPath
    \/ \E base \in {DashboardPath, AdminPath, ProfilePath} :
            pathname = base \/ StartsWith(pathname, base \o <<"/">>)

\* user-exists/route.ts: the answers the fetch of line 33 can have
UserExists == {IF Len(users) > 0 THEN "yes" ELSE "no", "error"}

\* a page request; the framework passes it on when the matcher leaves it out
Visit(pathname, cookie, isDev) ==
    /\ \E exists \in UserExists :
          visit' = [pathname |-> pathname, cookie |-> cookie, isDev |-> isDev,
                    response |-> IF Matched(pathname)
                                 THEN middleware(pathname, cookie, isDev, exists)
                                 ELSE "next"]
    /\ UNCHANGED <<now, hook, calls, requests, server, load, deletes, generationDeletes, handlers, timedOut, users, setups, media>>

(***************************************************************************)
(* The media-serving routes (src/app/api/media/s3/[[...path]]/route.ts      *)
(* holds the three of them).  A stored file lies under the id of its user,  *)
(* the first part of the path; `served` is the user whose file's content or *)
(* location the response carries, if any.                                   *)
(***************************************************************************)
\* the users under whose id files are stored; "" is a path without parts
PathUsers == {"", PageUser, OtherUser}

MediaRequest(route, caller, userId) ==
    [NoMedia EXCEPT !.route = route, !.caller = caller, !.userId = userId]

\* lines 99-161: the local file route
LocalFileGET(caller, userId, exists) ==
    LET request == [MediaRequest("local", caller, userId) EXCEPT !.exists = exists]
    IN IF caller = NoUser THEN [request EXCEPT !.status = 401]
       ELSE IF userId # caller THEN [request EXCEPT !.status = 403]
       ELSE IF ~exists THEN [request EXCEPT !.status = 404]
       ELSE [request EXCEPT !.status = 200, !.served = userId]

\* lines 11-89: the S3 route answers with the static URL of the key or
\* redirects to a signed URL of it
S3RedirectGET(caller, userId, storageType, configured, staticUrl) ==
    LET request == [MediaRequest("s3", caller, userId) EXCEPT
                        !.storageType = storageType, !.configured = configured,
                        !.staticUrl = staticUrl]
    IN IF storageType # "s3" THEN [request EXCEPT !.status = 400]
       ELSE IF ~configured THEN [request EXCEPT !.status = 500]
       ELSE IF userId = "" THEN [request EXCEPT !.status = 400]
       ELSE IF staticUrl THEN [request EXCEPT !.status = 200, !.served = userId]
       ELSE [request EXCEPT !.status = 307, !.served = userId]

\* lines 172-250: the S3 proxy route fetches the object and returns its bytes
\* (s3Client.send throws for a key that is not there: lines 246-249)
S3ProxyGET(caller, userId, configured, exists) ==
    LET request == [MediaRequest("s3proxy", caller, userId) EXCEPT
                        !.configured = configured, !.exists = exists]
    IN IF ~configured THEN [request EXCEPT !.status = 500]
       ELSE IF userId = "" THEN [request EXCEPT !.status = 400]
       ELSE IF ~exists THEN [request EXCEPT !.status = 500]
       ELSE [request EXCEPT !.status = 200, !.served = userId]

\* a request to one of the routes is answered
MediaGET(response) ==
    /\ media' = response
    /\ UNCHANGED <<now, hook, calls, requests, server, load, deletes, generationDeletes, handlers, timedOut, users, setups, visit>>

(***************************************************************************)
(* The hook as constructed and mounted on a first visit (lines 38-105 and  *)
(* the mount effects 57-86, 108-177): nothing stored, nothing persisted,   *)
(* the request for the saved generations sent.                             *)
(***************************************************************************)
Init ==
    /\ now = 0
    /\ isGeneratingRef = FALSE
    /\ isLoading = FALSE
    /\ currentGenerationRef = EmptyGeneration
    /\ generationHistory = <<>>
    /\ localStorage = NoItem
    /\ load = [pc |-> "sent", generations |-> <<>>, mounts |-> 1]
    /\ callNo = 0
    /\ lastResult = [call |-> 0, success |-> TRUE, error |-> ""]
    /\ requests = [p \in ProviderKey |-> IdleRequest]
    /\ db = <<>>
    /\ nextId = 1
    /\ deletes = <<>>
    /\ generationDeletes = <<>>
    /\ handlers = <<>>
    /\ timedOut = {}
    /\ users = <<>>
    /\ setups = <<>>
    /\ visit = NoVisit
    /\ media = NoMedia
    /\ log = <<>>

\* The page is opened again while nothing is in progress and nothing is
\* stored: the hook starts from its initial state (lines 38-105), the restore
\* effect (57-86) finds no item, the saved generations are requested (174-177).
Remount ==
    /\ load.mounts < MaxMounts
    /\ load.pc = "done"
    /\ ~isGeneratingRef
    /\ localStorage = NoItem
    /\ \A i \in 1..Len(deletes) : deletes[i] = NoDelete
    /\ \A i \in 1..Len(generationDeletes) : generationDeletes[i] = NoId
    /\ isLoading' = FALSE
    /\ currentGenerationRef' = EmptyGeneration
    /\ generationHistory' = <<>>
    /\ load' = [pc |-> "sent", generations |-> <<>>, mounts |-> load.mounts + 1]
    /\ UNCHANGED <<now, isGeneratingRef, localStorage, calls, requests, server, deletes, generationDeletes, handlers, timedOut, site>>

(***************************************************************************)
(* The page is reloaded while a generation is stored in localStorage: the   *)
(* hook is constructed anew, its mount effects run (lines 57-86 and         *)
(* 108-177), and the responses to the requests of the page before are lost. *)
(***************************************************************************)
\* lines 66-74: the record the restore effect builds from the stored item
Restored(stored) ==
    [EmptyGeneration EXCEPT !.id = stored.id, !.prompt = stored.prompt,
                            !.timestamp = stored.timestamp]

\* the handlers of the requests in flight go on; nobody waits for their answers
Orphaned(reqs) ==
    [p \in ProviderKey |->
        IF reqs[p].pc = "idle" THEN reqs[p] ELSE [reqs[p] EXCEPT !.orphan = TRUE]]

\* `elapsed` is the time since the submission that stored the item
Reload(elapsed) ==
    /\ load.mounts < MaxMounts
    /\ localStorage # NoItem
    /\ \A i \in 1..Len(deletes) : deletes[i] = NoDelete
    /\ \A i \in 1..Len(generationDeletes) : generationDeletes[i] = NoId
    /\ now' = now + elapsed
    /\ isGeneratingRef' = FALSE
    /\ generationHistory' = <<>>
    /\ requests' = Orphaned(requests)
    /\ load' = [pc |-> "sent", generations |-> <<>>, mounts |-> load.mounts + 1]
    /\ IF now' - localStorage.timestamp < RESTORE_WINDOW
       THEN /\ currentGenerationRef' = Restored(localStorage)
            /\ isLoading' = TRUE
            /\ UNCHANGED localStorage
       ELSE /\ currentGenerationRef' = EmptyGeneration
            /\ isLoading' = FALSE
            /\ localStorage' = NoItem
    /\ UNCHANGED <<calls, server, deletes, generationDeletes, handlers, timedOut, site>>

(***************************************************************************)
(* handlePromptSubmit (src/components/image-playground.tsx:131-186): the   *)
(* page submits only while isLoading is false and with the enabled         *)
(* providers in priority order.                                            *)
(***************************************************************************)
\* line 158: PROVIDER_ORDER.filter((p) => enabledProviders[p])
ActiveProviders(enabled) == SelectSeq(PROVIDER_ORDER, LAMBDA p : p \in enabled)

HandlePromptSubmit(prompt, enabled, elapsed) ==
    /\ ~isLoading
    /\ Len(ActiveProviders(enabled)) # 0
    /\ StartGeneration(prompt, ActiveProviders(enabled), elapsed)

\* the generate route's handlers
\* the calls a specification looks at: `max` that pass the gates, and any
\* number of rejected ones
MayCall(providers, max) == callNo < max \/ NoProviders(providers) \/ AlreadyGenerating

Server ==
    \/ \E p \in ProviderKey : SrvFind(p)
    \/ \E p \in ProviderKey : SrvCreate(p)
    \/ \E p \in ProviderKey : SrvGenerateOk(p)
    \/ \E p \in ProviderKey : SrvGenerateError(p)

\* the hook called directly, with any provider list and at any time
Next ==
    \/ \E prompt \in Prompts, providers \in Lists(ProviderKey), elapsed \in Delays :
            MayCall(providers, MaxCalls) /\ StartGeneration(prompt, providers, elapsed)
    \/ Server

Spec == Init /\ [][Next]_vars

\* the page: submissions through handlePromptSubmit, and the mount-time load
NextLoad ==
    \/ \E prompt \in Prompts, enabled \in SUBSET ProviderKey, elapsed \in Delays :
            /\ MayCall(ActiveProviders(enabled), MaxCalls)
            /\ HandlePromptSubmit(prompt, enabled, elapsed)
    \/ Server
    \/ LoadServe
    \/ LoadFail
    \/ LoadApply
    \/ Remount

SpecLoad == Init /\ [][NextLoad]_vars

\* the page: submissions and deletions of images
NextDelete ==
    \/ \E prompt \in Prompts, enabled \in SUBSET ProviderKey, elapsed \in Delays :
            /\ MayCall(ActiveProviders(enabled), MaxCalls)
            /\ HandlePromptSubmit(prompt, enabled, elapsed)
    \/ Server
    \/ \E k \in 1..Len(generationHistory), provider \in ProviderKey :
            HandleDeleteImage(generationHistory[k].id, provider)
    \/ \E i \in 1..Len(deletes) : DeleteImageOk(i)
    \/ \E i \in 1..Len(deletes) : DeleteImageNotFound(i)
    \/ \E i \in 1..Len(deletes) : DeleteImageError(i)

SpecDelete == Init /\ [][NextDelete]_vars

\* the page: submissions and deletions of generations
NextDeleteGeneration ==
    \/ \E prompt \in Prompts, enabled \in SUBSET ProviderKey, elapsed \in Delays :
            /\ MayCall(ActiveProviders(enabled), MaxCalls)
            /\ HandlePromptSubmit(prompt, enabled, elapsed)
    \/ Server
    \/ \E id \in HistoryIds \cup IssuedIds : DeleteGeneration(id)
    \/ \E i \in 1..Len(generationDeletes) : DeleteGenerationOk(i)
    \/ \E i \in 1..Len(generationDeletes) : DeleteGenerationNotFound(i)
    \/ \E i \in 1..Len(generationDeletes) : DeleteGenerationError(i)

SpecDeleteGeneration == Init /\ [][NextDeleteGeneration]_vars

\* the page's submissions of one prompt, 20 s apart, and, once they are over,
\* delete requests sent to the routes, which the server handles concurrently
NextServerDelete ==
    \/ \E enabled \in SUBSET ProviderKey :
            /\ MayCall(ActiveProviders(enabled), MaxCalls)
            /\ handlers = <<>>
            /\ HandlePromptSubmit("fox", enabled, 1)
    \/ Server
    \/ \E id \in IssuedIds :
            ~isGeneratingRef /\ SrvDeleteRequest("generation", id, "")
    \/ \E id \in IssuedIds, provider \in ProviderKey :
            ~isGeneratingRef /\ SrvDeleteRequest("media", id, provider)
    \/ \E i \in 1..Len(handlers) : SrvDeleteFind(i)
    \/ \E i \in 1..Len(handlers) : SrvDeleteItem(i)
    \/ \E i \in 1..Len(handlers) : SrvDeleteCount(i)
    \/ \E i \in 1..Len(handlers) : SrvDeleteDrop(i)

SpecServerDelete == Init /\ [][NextServerDelete]_vars

\* one generation of the page's user and delete requests of any caller, sent
\* once the generation is over
NextDeleteAccess ==
    \/ \E enabled \in SUBSET ProviderKey :
            /\ MayCall(ActiveProviders(enabled), MaxCalls)
            /\ handlers = <<>>
            /\ HandlePromptSubmit("fox", enabled, 1)
    \/ Server
    \/ \E caller \in Callers, id \in IssuedIds :
            ~isGeneratingRef /\ SrvDeleteRequestBy(caller, "generation", id, "")
    \/ \E caller \in Callers, id \in IssuedIds, provider \in ProviderKey :
            ~isGeneratingRef /\ SrvDeleteRequestBy(caller, "media", id, provider)
    \/ \E i \in 1..Len(handlers) : SrvDeleteFind(i)
    \/ \E i \in 1..Len(handlers) : SrvDeleteItem(i)
    \/ \E i \in 1..Len(handlers) : SrvDeleteCount(i)
    \/ \E i \in 1..Len(handlers) : SrvDeleteDrop(i)

SpecDeleteAccess == Init /\ [][NextDeleteAccess]_vars

\* every request a page is waiting for has been answered
NoRequests == \A p \in ProviderKey : requests[p].pc = "idle"

\* the page with reloads in the middle of a generation: one prompt, submitted
\* while no request of an earlier page is still being handled
NextIdle ==
    \/ \E enabled \in SUBSET ProviderKey :
            /\ MayCall(ActiveProviders(enabled), MaxCalls)
            /\ NoRequests
            /\ HandlePromptSubmit("fox", enabled, 1)
    \/ Server
    \/ LoadServe
    \/ LoadFail
    \/ LoadApply
    \/ \E elapsed \in {1, RESTORE_WINDOW} : Reload(elapsed)

\* the handlers of the route and of the list run to their end
LoadStep == LoadServe \/ LoadFail \/ LoadApply

\* every issued request eventually settles
SpecIdle == Init /\ [][NextIdle]_vars /\ WF_vars(Server) /\ WF_vars(LoadStep)

\* the page and a route whose provider calls may outlast the 55 seconds
NextTimeout ==
    \/ \E enabled \in SUBSET ProviderKey :
            /\ MayCall(ActiveProviders(enabled), MaxCalls)
            /\ HandlePromptSubmit("fox", enabled, 1)
    \/ Server
    \/ \E p \in ProviderKey : SrvGenerateTimeout(p)
    \/ \E t \in timedOut : SrvLateSave(t)
    \/ \E t \in timedOut : SrvLateError(t)

SpecTimeout == Init /\ [][NextTimeout]_vars

\* the setup endpoint under concurrent requests, and page requests
NextSetup ==
    \/ \E email \in Emails, password \in Passwords : SetupRequest(email, password)
    \/ \E i \in 1..Len(setups) : SetupCount(i)
    \/ \E i \in 1..Len(setups) : SetupCreate(i)
    \/ \E i \in 1..Len(setups) : SetupError(i)
    \/ \E pathname \in Pathnames, cookie \in BOOLEAN, isDev \in BOOLEAN :
            Visit(pathname, cookie, isDev)

SpecSetup == Init /\ [][NextSetup]_vars

\* requests of anybody for the files of the two users
NextMedia ==
    \/ \E caller \in Callers, userId \in PathUsers \ {""}, exists \in BOOLEAN :
            MediaGET(LocalFileGET(caller, userId, exists))
    \/ \E caller \in Callers, userId \in PathUsers, storageType \in {"local", "s3"},
          configured \in BOOLEAN, staticUrl \in BOOLEAN :
            MediaGET(S3RedirectGET(caller, userId, storageType, configured, staticUrl))
    \/ \E caller \in Callers, userId \in PathUsers, configured \in BOOLEAN,
          exists \in BOOLEAN :
            MediaGET(S3ProxyGET(caller, userId, configured, exists))

SpecMedia == Init /\ [][NextMedia]_vars

\* the page: three submissions, each 20 s after the one before
NextOrder ==
    \/ \E prompt \in Prompts, enabled \in SUBSET ProviderKey :
            /\ MayCall(ActiveProviders(enabled), MaxOrderCalls)
            /\ HandlePromptSubmit(prompt, enabled, 1)
    \/ Server

SpecOrder == Init /\ [][NextOrder]_vars

(***************************************************************************)
(* Properties.  `log` records, for every accepted call, its prompt, the    *)
(* providers it was given, the providers that answered with an image, the  *)
(* identifiers its in-flight record had and the number of entries the call *)
(* added to the history.                                                   *)
(***************************************************************************)
\* the position of a provider in PROVIDER_ORDER
Priority(p) == CHOOSE i \in 1..Len(PROVIDER_ORDER) : PROVIDER_ORDER[i] = p

InPriorityOrder(images) ==
    \A j, k \in 1..Len(images) :
        j < k => Priority(images[j].provider) < Priority(images[k].provider)

\* the calls whose responses put an image into the entry
CallsOf(e) == {e.images[j].content : j \in 1..Len(e.images)} \ {NoContent}

\* call c is over
Finished(c) == c \in 1..Len(log) /\ (c < callNo \/ ~isGeneratingRef)

\* e is what a call with this prompt and these successful providers finalizes:
\* its prompt and exactly one image, with content, for each of them
IsEntryOf(e, c, prompt, delivered) ==
    /\ e.prompt = prompt
    /\ Len(e.images) = Cardinality(delivered)
    /\ \A p \in delivered :
         \E j \in 1..Len(e.images) :
            e.images[j].provider = p /\ e.images[j].content = c

\* the step in which the last provider of the running call settles
Completes == isGeneratingRef /\ ~isGeneratingRef'

\* C1: an entry finalized by a call given N providers holds at most N images,
\* and they stand in PROVIDER_ORDER priority whatever order the responses
\* arrived in.
C1_ImagesInPriorityOrder ==
    \A i \in 1..Len(generationHistory) :
        \A c \in CallsOf(generationHistory[i]) :
            /\ Len(generationHistory[i].images) <= Cardinality(log[c].providers)
            /\ InPriorityOrder(generationHistory[i].images)

\* an entry with both images whose media items were stored openai first
C1_Witness ==
    \E i \in 1..Len(generationHistory), r \in 1..Len(db) :
        /\ db[r].id = generationHistory[i].id
        /\ db[r].mediaItems = <<"openai", "replicate">>
        /\ CallsOf(generationHistory[i]) # {}
        /\ Len(generationHistory[i].images) = 2

\* C2: when the providers S of a call succeed and the others F fail, the
\* finalized entry holds exactly one image for each provider of S, its
\* failedProviders is exactly F and its errors hold exactly one error for each
\* provider of F.
C2_PartialFailure ==
    \A i \in 1..Len(generationHistory) :
        \A c \in CallsOf(generationHistory[i]) :
            LET e == generationHistory[i]
                S == log[c].delivered
                F == log[c].providers \ S
            IN /\ Finished(c)
               /\ IsEntryOf(e, c, log[c].prompt, S)
               /\ Len(e.failedProviders) = Cardinality(F)
               /\ Range(e.failedProviders) = F
               /\ Len(e.errors) = Cardinality(F)
               /\ {e.errors[j].provider : j \in 1..Len(e.errors)} = F

\* an entry of a call of which one provider succeeded and one failed
C2_Witness ==
    \E i \in 1..Len(generationHistory) :
        /\ CallsOf(generationHistory[i]) # {}
        /\ Len(generationHistory[i].images) = 1
        /\ Len(generationHistory[i].failedProviders) = 1
        /\ Len(generationHistory[i].errors) = 1

\* the generation record a history entry shows was created for call c and
\* nothing but that call is in the entry
OriginatesFrom(e, c) ==
    \/ e.id = TempId(c)
    \/ /\ e.images = <<>>
       /\ \E r \in 1..Len(db) : db[r].id = e.id /\ db[r].call = c

\* C3: a generation of which every provider failed is never in the history,
\* whether the history was written by a finalization or by loadSavedGenerations.
C3_NoFailedGenerationInHistory ==
    \A c \in 1..Len(log) :
        (Finished(c) /\ log[c].delivered = {}) =>
            \A i \in 1..Len(generationHistory) :
                ~OriginatesFrom(generationHistory[i], c)

\* C4: startGeneration called while a generation is running returns
\* success: false and changes neither the in-flight record, nor the history,
\* nor the loading flags, and sends nothing.
C4_RejectedWhileGenerating ==
    [][(isGeneratingRef
        /\ \E prompt \in Prompts, providers \in Lists(ProviderKey), elapsed \in Delays :
              StartGeneration(prompt, providers, elapsed))
       => (/\ lastResult'.success = FALSE
           /\ UNCHANGED <<now, hook, callNo, log, requests, server, load, deletes, generationDeletes, handlers, timedOut, site>>)]_vars

\* a call was turned away while a record with an image was in flight
C4_Witness ==
    /\ isGeneratingRef
    /\ lastResult.error = InProgressError
    /\ Len(currentGenerationRef.images) > 0

\* C5: startGeneration called with an empty provider list returns
\* success: false and changes nothing, whether or not a generation is running.
C5_RejectedWithoutProviders ==
    [][(\E prompt \in Prompts, elapsed \in Delays :
            StartGeneration(prompt, <<>>, elapsed))
       => (/\ lastResult'.success = FALSE
           /\ lastResult'.error = NoProvidersError
           /\ UNCHANGED <<now, hook, callNo, log, requests, server, load, deletes, generationDeletes, handlers, timedOut, site>>)]_vars

\* a call without providers was turned away with a history to lose
C5_Witness ==
    /\ lastResult.error = NoProvidersError
    /\ ~isGeneratingRef
    /\ Len(generationHistory) > 0

\* C6: a call that passed both gates resolves to success: true, also when
\* every provider failed; the failures are in failedProviders and errors only.
C6_SuccessAfterGates ==
    /\ lastResult.call # 0 => lastResult.success
    /\ (~isGeneratingRef /\ callNo > 0 /\ log[callNo].delivered = {}
        /\ lastResult.call = callNo) =>
            /\ lastResult.success
            /\ Range(currentGenerationRef.failedProviders) = log[callNo].providers
            /\ Len(currentGenerationRef.errors) = Cardinality(log[callNo].providers)

\* a call of two providers which both failed has resolved
C6_Witness ==
    /\ ~isGeneratingRef
    /\ lastResult.call = callNo
    /\ callNo > 0
    /\ log[callNo].delivered = {}
    /\ Cardinality(log[callNo].providers) = 2
    /\ Len(currentGenerationRef.failedProviders) = 2

\* C7: one call, with its finalization of the previous record on entry and
\* its own finalization at the end, makes the history longer by at most one.
C7_AtMostOneEntryPerCall ==
    \A c \in 1..Len(log) : log[c].added <= 1

\* the second call has added its entry to the first call's
C7_Witness ==
    /\ callNo = 2
    /\ ~isGeneratingRef
    /\ log[1].added = 1
    /\ log[2].added = 1
    /\ Len(generationHistory) = 2

\* the identifier the record has when the last response has been handled
FinalId ==
    LET p == CHOOSE q \in ProviderKey : requests[q].pc # "idle"
    IN IF /\ p \in log'[callNo].delivered
          /\ requests[p].gid # NoId
          /\ currentGenerationRef.id = TempId(callNo)
       THEN requests[p].gid
       ELSE currentGenerationRef.id

\* C8 as stated: once every provider of a call has settled and at least one
\* returned an image, generationHistory[0] holds the call's prompt and its
\* successful images.
C8_FrontHoldsTheCall ==
    (~isGeneratingRef /\ callNo > 0 /\ log[callNo].delivered # {})
        => /\ Len(generationHistory) > 0
           /\ IsEntryOf(generationHistory[1], callNo, log[callNo].prompt,
                        log[callNo].delivered)

\* C8 amended: when the last provider of a call settles, at least one returned
\* an image and no entry of the history has the record's identifier, one entry
\* is put in front of the others and it holds the call's prompt and its
\* successful images.
C8_FrontHoldsTheCallIfNew ==
    [][(Completes /\ log'[callNo].delivered # {} /\ FinalId \notin HistoryIds)
       => (/\ generationHistory' = <<generationHistory'[1]>> \o generationHistory
           /\ generationHistory'[1].id = FinalId
           /\ IsEntryOf(generationHistory'[1], callNo, log'[callNo].prompt,
                        log'[callNo].delivered))]_vars

\* the second call's entry stands in front of the first call's
C8_Witness ==
    /\ callNo = 2
    /\ ~isGeneratingRef
    /\ Len(generationHistory) = 2
    /\ CallsOf(generationHistory[1]) = {2}
    /\ CallsOf(generationHistory[2]) = {1}
    /\ IsEntryOf(generationHistory[1], 2, log[2].prompt, log[2].delivered)

\* C9: when a record is finalized whose identifier an entry of the history
\* has, that entry is replaced where it stands if the record has strictly more
\* images and is left as it was otherwise; the history gets no second entry
\* with the identifier.
C9_ReplaceOnlyWithMoreImages ==
    [][(Completes /\ log'[callNo].delivered # {} /\ FinalId \in HistoryIds)
       => LET i == CHOOSE j \in 1..Len(generationHistory) :
                       generationHistory[j].id = FinalId
              n == Cardinality(log'[callNo].delivered)
          IN /\ Len(generationHistory') = Len(generationHistory)
             /\ \A j \in 1..Len(generationHistory) :
                  j # i => generationHistory'[j] = generationHistory[j]
             /\ Cardinality({j \in 1..Len(generationHistory') :
                                generationHistory'[j].id = FinalId}) = 1
             /\ IF n > Len(generationHistory[i].images)
                THEN /\ generationHistory'[i].id = FinalId
                     /\ IsEntryOf(generationHistory'[i], callNo, log'[callNo].prompt,
                                  log'[callNo].delivered)
                ELSE generationHistory'[i] = generationHistory[i]]_vars

\* the second call got the first call's identifier and as many images as the
\* first: the first call's entry is still the only one
C9_Witness ==
    /\ callNo = 2
    /\ ~isGeneratingRef
    /\ log[2].delivered # {}
    /\ Cardinality(log[2].delivered) = Cardinality(log[1].delivered)
    /\ Len(generationHistory) = 1
    /\ CallsOf(generationHistory[1]) = {1}

\* the images of the entry that are not the provider's
ImagesLeft(e, provider) == SelectSeq(e.images, LAMBDA img : img.provider # provider)

\* C10 as stated: when the server confirms deleteImage(generationId, provider),
\* the targeted entry is removed from the history if it has exactly one image;
\* if it has more than one, only the provider's image is removed and the entry
\* stays; the other entries and the order of the entries are unchanged.
C10_DeleteImageByCount ==
    [][\A i \in 1..Len(deletes) :
         DeleteImageOk(i) =>
            \A k \in 1..Len(generationHistory) :
                generationHistory[k].id = deletes[i].id =>
                    IF Len(generationHistory[k].images) = 1
                    THEN generationHistory' = RemoveAt(generationHistory, k)
                    ELSE Len(generationHistory[k].images) > 1 =>
                            generationHistory' =
                                [generationHistory EXCEPT ![k].images =
                                    ImagesLeft(generationHistory[k], deletes[i].provider)]
      ]_vars

\* C10 amended: when the server confirms deleteImage(generationId, provider),
\* the targeted entry is removed from the history if it has no image of
\* another provider; otherwise it stays where it is, without the provider's
\* image; the other entries and the order of the entries are unchanged, and
\* so is the history when it has no entry with the identifier.
C10_DeleteImageByImagesLeft ==
    [][\A i \in 1..Len(deletes) :
         DeleteImageOk(i) =>
            /\ \A k \in 1..Len(generationHistory) :
                  generationHistory[k].id = deletes[i].id =>
                    IF ImagesLeft(generationHistory[k], deletes[i].provider) = <<>>
                    THEN generationHistory' = RemoveAt(generationHistory, k)
                    ELSE generationHistory' =
                            [generationHistory EXCEPT ![k].images =
                                ImagesLeft(generationHistory[k], deletes[i].provider)]
            /\ deletes[i].id \notin HistoryIds => generationHistory' = generationHistory
      ]_vars

\* a deleteImage was confirmed and, in front of another entry, an entry of a
\* call with two successful providers is left with one image
C10_Witness ==
    /\ \E i \in 1..Len(deletes) : deletes[i] = NoDelete
    /\ Len(generationHistory) = 2
    /\ Len(generationHistory[1].images) = 1
    /\ \E c \in CallsOf(generationHistory[1]) : Cardinality(log[c].delivered) = 2
    /\ \E r \in 1..Len(db) :
          /\ db[r].id = generationHistory[1].id
          /\ Len(db[r].mediaItems) = 1

\* C14: whenever a startGeneration call has completed and none is in progress,
\* the in-flight record is empty: no id, no images, no errors, no failed
\* providers, also when every provider failed.
C14_RecordClearedAfterCall ==
    (~isGeneratingRef /\ callNo > 0) =>
        /\ currentGenerationRef.id = NoId
        /\ currentGenerationRef.images = <<>>
        /\ currentGenerationRef.errors = <<>>
        /\ currentGenerationRef.failedProviders = <<>>

\* the entry has an image with content, or an image with a stored path
HasUsableImage(e) ==
    \E j \in 1..Len(e.images) :
        e.images[j].content # NoContent \/ e.images[j].mediaPath # ""

\* C16: in every reachable state every entry of the history has at least one
\* image with content or with a stored path.
C16_EveryEntryHasAnImage ==
    \A i \in 1..Len(generationHistory) : HasUsableImage(generationHistory[i])

\* C17: in every reachable state the images of every entry of the history,
\* finalized, loaded or reduced by deleteImage, are at most one per provider
\* and stand in PROVIDER_ORDER priority.
C17_EveryEntryInPriorityOrder ==
    \A i \in 1..Len(generationHistory) : InPriorityOrder(generationHistory[i].images)

\* C19: the timing of every provider of an attempt is created with a start
\* time and is mutated when the provider's request settles, with an image or
\* with a failure: while the attempt runs, the timings that have a completion
\* time are those of the providers whose request has settled.
C19_TimingMutatedWhenSettled ==
    isGeneratingRef =>
        \A p \in log[callNo].providers :
            /\ currentGenerationRef.timings[p].startTime = currentGenerationRef.timestamp
            /\ requests[p].pc = "idle"
                 <=> currentGenerationRef.timings[p].completionTime # -1

\* C15: within one attempt the identifier of the in-flight record changes at
\* most once, from the temporary id to the id carried by the first response
\* that has one; every later response leaves it as it is.
C15_IdentifierChangesOnce ==
    [][\A p \in ProviderKey :
         (requests[p].pc = "gen" /\ requests'[p].pc = "idle") =>
            LET before == log[callNo].ids[Len(log[callNo].ids)]
                after == log'[callNo].ids[Len(log'[callNo].ids)]
                answered == p \in log'[callNo].delivered
                gid == requests[p].gid
            IN /\ after = IF before = TempId(callNo) /\ answered /\ gid # NoId
                          THEN gid ELSE before
               /\ Len(log'[callNo].ids) <= 2
               /\ log'[callNo].ids[1] = TempId(callNo)
      ]_vars

\* both responses of a call carried an id, each of a row of its own, and the
\* record took one
C15_Witness ==
    \E c \in 1..Len(log) :
        /\ Finished(c)
        /\ Cardinality(log[c].delivered) = 2
        /\ Len(log[c].ids) = 2
        /\ Cardinality({r \in 1..Len(db) : db[r].call = c /\ db[r].mediaItems # <<>>}) = 2

\* C12: deleteImage sends its request again only after a 404 and only while
\* fewer than MAX_RETRIES retries were made, so that one deleteImage sends at
\* most MAX_RETRIES + 1 requests and every response either ends it or uses up
\* a retry; another failure ends it at once; a failed attempt leaves the
\* history as it is.
C12_RetryOnlyOnNotFound ==
    [][\A i \in 1..Len(deletes) :
         deletes'[i] # deletes[i] =>
            /\ deletes[i] # NoDelete
            /\ \/ deletes'[i] = NoDelete
               \/ /\ deletes'[i] = [deletes[i] EXCEPT !.retryCount = @ + 1]
                  /\ MediaStatus(deletes[i].id, deletes[i].provider) = 404
                  /\ deletes[i].retryCount < MAX_RETRIES
            /\ deletes'[i].retryCount + 1 <= MAX_RETRIES + 1
            /\ DeleteImageError(i) => deletes'[i] = NoDelete
            /\ ~DeleteImageOk(i) => generationHistory' = generationHistory
      ]_vars

\* the fourth request of a deleteImage is on its way while the history still
\* shows the image
C12_Witness ==
    \E i \in 1..Len(deletes) :
        /\ deletes[i].retryCount = MAX_RETRIES
        /\ \E k \in 1..Len(generationHistory) :
              /\ generationHistory[k].id = deletes[i].id
              /\ MapHas(generationHistory[k].images, deletes[i].provider)

\* C11: deleteGeneration(id) removes the entry only after the server confirmed
\* the delete: a non-OK response or a network error leaves the history as it
\* is, a confirmation removes exactly the entry with the id and leaves the
\* other entries and their order as they are, and for an id that is not in
\* the history no request is sent.
C11_DeleteGenerationOnConfirm ==
    [][/\ \A i \in 1..Len(generationDeletes) :
            /\ (DeleteGenerationNotFound(i) \/ DeleteGenerationError(i))
                  => generationHistory' = generationHistory
            /\ DeleteGenerationOk(i) =>
                  IF generationDeletes[i] \in HistoryIds
                  THEN \E k \in 1..Len(generationHistory) :
                          /\ generationHistory[k].id = generationDeletes[i]
                          /\ generationHistory' = RemoveAt(generationHistory, k)
                  ELSE generationHistory' = generationHistory
       /\ \A id \in HistoryIds \cup IssuedIds :
            DeleteGeneration(id) =>
                /\ generationHistory' = generationHistory
                /\ db' = db
                /\ id \notin HistoryIds => generationDeletes' = generationDeletes
      ]_vars

\* of two generations with a row each, one was deleted on the server and is
\* gone from the history, the other is still there
C11_Witness ==
    /\ \E i \in 1..Len(generationDeletes) : generationDeletes[i] = NoId
    /\ nextId = 3
    /\ Len(db) = 1
    /\ Len(generationHistory) = 1
    /\ generationHistory[1].id = db[1].id
    /\ \A c \in 1..Len(log) : Finished(c) /\ log[c].delivered # {}

\* C20: the server's deletes are idempotent: a delete request for a generation
\* or a media item is answered 200 when it deleted it and 404 when it was
\* absent, also when another delete of the same generation or media item runs
\* at the same time; no delete request is answered otherwise.
C20_DeleteAnswersOkOrNotFound ==
    \A i \in 1..Len(handlers) :
        handlers[i].pc = "done" => handlers[i].status \in {200, 404}

\* C18: the history is most-recent-first in every reachable state: the
\* timestamps of its entries do not increase from the front on.
C18_MostRecentFirst ==
    \A i, j \in 1..Len(generationHistory) :
        i < j => generationHistory[i].timestamp >= generationHistory[j].timestamp

\* C13: the controller always returns to Idle: when every issued request
\* eventually settles, the generating flag and isLoading are false again and
\* again, whatever state was reached, the state restored at mount included.
C13_ReturnsToIdle == []<>(~isGeneratingRef /\ ~isLoading)

\* an entry that startGeneration finalized: its images carry their content
FinalizedByCall(entry) ==
    \E k \in 1..Len(entry.images) : entry.images[k].content # NoContent

\* C29: the completion of the mount-time load never removes or overwrites an
\* entry that startGeneration finalized into the history: every such entry is
\* still in the history, as it was, after loadSavedGenerations has set it.
C29_LoadKeepsFinalizedEntries ==
    [][LoadApply =>
        \A i \in 1..Len(generationHistory) :
            FinalizedByCall(generationHistory[i]) =>
                \E j \in 1..Len(generationHistory') :
                    generationHistory'[j] = generationHistory[i]]_vars

\* no handler of the server is at work: no generate request, no list request,
\* no delete request
ServerQuiet ==
    /\ NoRequests
    /\ load.pc # "sent"
    /\ \A i \in 1..Len(deletes) : deletes[i] = NoDelete
    /\ \A i \in 1..Len(generationDeletes) : generationDeletes[i] = NoId
    /\ \A i \in 1..Len(handlers) : handlers[i].pc = "done"

\* C26: whenever no server request is in flight, every persisted generation
\* record has at least one media item.
C26_EveryRecordHasMedia ==
    ServerQuiet => \A i \in 1..Len(db) : Len(db[i].mediaItems) > 0

\* the generation records created by the requests of call c
RecordsOf(c) == {r \in 1..Len(db) : db[r].call = c}

\* C27: the requests one startGeneration call issues attach to one generation
\* record under every interleaving of the handlers: the requests of one call
\* create at most one record, and every media item they stored belongs to the
\* record whose id the call's history entry carries.
C27_OneRecordPerCall ==
    \A c \in 1..Len(log) :
        /\ Cardinality(RecordsOf(c)) <= 1
        /\ \A i \in 1..Len(generationHistory) :
             c \in CallsOf(generationHistory[i]) =>
                \A r \in RecordsOf(c) :
                    db[r].mediaItems # <<>> => db[r].id = generationHistory[i].id

\* C28: no media item is persisted for a request that was answered with an
\* error, neither before nor after the response: every step that persists a
\* media item is the step that answers its request with success.
C28_NoSaveForFailedRequest ==
    [][\A r \in 1..Len(db) :
         (r <= Len(db') /\ Len(db'[r].mediaItems) > Len(db[r].mediaItems)) =>
            \E p \in ProviderKey :
                /\ requests[p].pc = "gen"
                /\ requests'[p].pc = "idle"
                /\ p \in log'[callNo].delivered
                /\ db'[r].mediaItems = Append(db[r].mediaItems, p)]_vars

\* the ids of the persisted generation records
RowIds(rows) == {rows[r].id : r \in 1..Len(rows)}

\* C21: DELETE /api/generations/{id} by the owner deletes the generation and
\* every other generation of the user with the same prompt: after a step
\* that deleted a generation, no record with its prompt is left.
C21_DeletesSamePrompt ==
    [][\A r \in 1..Len(db) :
         db[r].id \notin RowIds(db') =>
            \A q \in 1..Len(db') : db'[q].prompt # db[r].prompt]_vars

\* the caller of handler i may not delete what it asks for
NotTheOwner(i) ==
    \/ handlers[i].caller = NoUser
    \/ RowExists(handlers[i].id) /\ OwnerOf(handlers[i].id) # handlers[i].caller

\* C25: both delete routes mutate nothing unless the caller owns the
\* generation: the step a handler takes for an unauthenticated caller answers
\* 401, the step it takes for a caller who is not the owner of the generation
\* answers 403, and neither changes a generation record or a media item.
C25_OnlyTheOwnerDeletes ==
    [][\A i \in 1..Len(handlers) :
         (NotTheOwner(i) /\ handlers[i].pc # "done" /\ handlers'[i] # handlers[i]) =>
            /\ handlers'[i].pc = "done"
            /\ handlers'[i].status = IF handlers[i].caller = NoUser THEN 401 ELSE 403
            /\ db' = db]_vars

\* another user asked for the page user's generation and was answered 403, an
\* unauthenticated caller 401, and the generation is there with its image
C25_Witness ==
    /\ Len(handlers) = 2
    /\ handlers[1].pc = "done" /\ handlers[1].status = 403
    /\ handlers[2].pc = "done" /\ handlers[2].status = 401
    /\ \E r \in 1..Len(db) : db[r].mediaItems # <<>>

\* C22: across any number of setup requests, concurrent ones included, the
\* setup endpoint creates at most one ADMIN user.
C22_AtMostOneAdmin ==
    Cardinality({u \in 1..Len(users) : users[u].role = "ADMIN"}) <= 1

\* C23: a request that carries the session cookie and targets /setup is
\* redirected to the home page / and never passed through to the setup page.
C23_SetupRedirectsHome ==
    (visit.response # "" /\ visit.cookie /\ visit.pathname = SetupPath) =>
        visit.response = "redirect:/"

\* C24: users can only access their own media: on each of the media-serving
\* routes, a response carries the content or the location of a file stored
\* under a user id only if the caller is authenticated as that user.
C24_OwnMediaOnly ==
    media.served # "" => media.caller = media.served

====
